---- MODULE Spec2Model ----
(***************************************************************************)
(* The PurchaseOrder aggregate of the procurement context: its lifecycle   *)
(* state machine (PurchaseOrderState), its line items (PurchaseOrderItem)  *)
(* and the Money arithmetic behind calculateTotalPrice.                    *)
(*                                                                         *)
(* JavaScript numbers are IEEE doubles.  A number is modelled as a record  *)
(* [t, v, hi]:                                                             *)
(*   t = "fin"  the value v / 1000 (thousandths, so that the rounding to   *)
(*              two decimals done by toFixed(2) is visible);               *)
(*   t = "wide" the integer hi * 2^53 + v with hi >= 1 and 0 <= v far      *)
(*              below 2^53: past 2^53 doubles are Spacing(hi) apart and a  *)
(*              sum is rounded to the nearest of them, ties to the even    *)
(*              mantissa;                                                  *)
(*   t = "big"  the value v * 2^1013 (8.78e304), finite while it is below  *)
(*              2^1024, i.e. while v <= 2047; sums and integer multiples   *)
(*              of such values are exact;                                  *)
(*   t = "inf"  Infinity;   t = "nan"  NaN;                                *)
(*   t = "string" / "undefined"  a value that is not of type number.       *)
(* Decimal literals that sit exactly on half a cent are not enumerated:    *)
(* the direction toFixed rounds them depends on their binary expansion.    *)
(* Products are taken of non-negative operands, and of a wide or big value *)
(* only with a whole number, Infinity, NaN or a big value.                 *)
(***************************************************************************)
EXTENDS Integers, Sequences, FiniteSets

\* ------------------------------------------------------------------ bounds

\* Orders of up to MaxVaried items are built from every valid input in every
\* order; longer ones, up to MAX_ITEMS, hold the filler item only.
MaxVaried == 2

\* How far past MAX_ITEMS a caller holding the items array is followed.
MaxOverflow == 1

\* The number of items of the orders whose totals are compared across the
\* orders the same items can arrive in.
MaxReceived == 3

\* ----------------------------------------------------------- JS numbers

Fin(v) == [t |-> "fin", v |-> v, hi |-> 0]

Wide(n, v) == [t |-> "wide", v |-> v, hi |-> n]

Big(v) == [t |-> "big", v |-> v, hi |-> 0]

Infinity == [t |-> "inf", v |-> 0, hi |-> 0]

NaN == [t |-> "nan", v |-> 0, hi |-> 0]

NotNumber(type) == [t |-> type, v |-> 0, hi |-> 0]

\* Number.isFinite(x): false for every value that is not a number
NumberIsFinite(x) == x.t \in {"fin", "wide", "big"}

\* Number.isInteger(x); every double above 2^53 is an integer
NumberIsInteger(x) == (x.t = "fin" /\ x.v % 1000 = 0) \/ x.t \in {"wide", "big"}

\* x < 0 and x <= 0 on numbers (NaN compares false)
LtZero(x) == x.t = "fin" /\ x.v < 0

LeZero(x) == x.t = "fin" /\ x.v <= 0

\* x > 1000 on numbers
GtThousand(x) == (x.t = "fin" /\ x.v > 1000000) \/ x.t \in {"wide", "big", "inf"}

\* a result of magnitude v * 2^1013: Infinity from 2^1024 on
Overflowing(v) == IF v = 0 THEN Fin(0) ELSE IF v <= 2047 THEN Big(v) ELSE Infinity

\* the distance between neighbouring doubles in [n * 2^53, (n + 1) * 2^53):
\* twice the largest power of two that is at most n
RECURSIVE Spacing(_)
Spacing(n) == IF n <= 1 THEN 2 ELSE 2 * Spacing(n \div 2)

\* the double nearest to n * 2^53 + m / 1000 (m >= 0): a multiple of the
\* spacing, the one with the even mantissa when two are equally near
RoundWide(n, m) ==
    LET s == Spacing(n) * 1000
        q == m \div s
        r == m % s
        up == 2 * r > s \/ (2 * r = s /\ q % 2 = 1)
    IN  Wide(n, (IF up THEN q + 1 ELSE q) * Spacing(n))

\* x + y on doubles
NumAdd(x, y) ==
    IF x.t = "nan" \/ y.t = "nan" THEN NaN
    ELSE IF x.t = "inf" \/ y.t = "inf" THEN Infinity
    ELSE IF x.t = "big" /\ y.t = "big" THEN Overflowing(x.v + y.v)
    ELSE IF x.t = "big" THEN x
    ELSE IF y.t = "big" THEN y
    ELSE IF x.t = "wide" /\ y.t = "wide" THEN RoundWide(x.hi + y.hi, (x.v + y.v) * 1000)
    ELSE IF x.t = "wide" THEN RoundWide(x.hi, x.v * 1000 + y.v)
    ELSE IF y.t = "wide" THEN RoundWide(y.hi, y.v * 1000 + x.v)
    ELSE Fin(x.v + y.v)

\* x * y on doubles
NumMul(x, y) ==
    IF x.t = "nan" \/ y.t = "nan" THEN NaN
    ELSE IF x.t = "inf" \/ y.t = "inf"
         THEN (IF x = Fin(0) \/ y = Fin(0) THEN NaN ELSE Infinity)
    ELSE IF x.t = "big" /\ y.t \in {"wide", "big"} THEN Infinity
    ELSE IF x.t = "wide" /\ y.t = "big" THEN Infinity
    ELSE IF x.t = "big" THEN Overflowing((x.v * y.v) \div 1000)
    ELSE IF y.t = "big" THEN Overflowing((x.v * y.v) \div 1000)
    ELSE IF x = Fin(0) \/ y = Fin(0) THEN Fin(0)
    ELSE IF x.t = "wide" THEN RoundWide(x.hi * (y.v \div 1000), x.v * y.v)
    ELSE IF y.t = "wide" THEN RoundWide(y.hi * (x.v \div 1000), y.v * x.v)
    ELSE Fin(x.v * (y.v \div 1000) + (x.v * (y.v % 1000)) \div 1000)

\* Number(x.toFixed(2)) for a finite x >= 0: the nearest multiple of 0.01;
\* a double past 2^53 is an integer and comes back as itself
ToFixed2(x) == IF x.t = "fin" THEN Fin(((x.v + 5) \div 10) * 10) ELSE x

\* -------------------------------------------------------------- results

\* A call returns a value or throws; a throw carries the error's name and message.
Ok(value) == [outcome |-> "ok", msg |-> "", value |-> value]

Throw(name, msg, nothing) == [outcome |-> name, msg |-> msg, value |-> nothing]

ValidationError(msg, nothing) == Throw("ValidationError", msg, nothing)

\* ------------------------------------------------------------- Currency

VALID_CODES == {"USD", "EUR", "GBP", "JPY"}

\* Currency.equals
CurrencyEquals(c, other) == c = other

\* ---------------------------------------------------------------- Money

NoMoney == [cls |-> "none", amount |-> NaN, currency |-> ""]

\* the constructor with the test amount < 0 left out
MoneyNew_NegativeAllowed(amount, currency) ==
    IF ~NumberIsFinite(amount)
    THEN ValidationError("Amount must be a non-negative number", NoMoney)
    ELSE IF currency \notin VALID_CODES
    THEN ValidationError("Currency must be a valid Currency object", NoMoney)
    ELSE Ok([cls |-> "Money", amount |-> ToFixed2(amount), currency |-> currency])

\* new Money({amount, currency})
MoneyNew(amount, currency) ==
    IF ~NumberIsFinite(amount) \/ LtZero(amount)
    THEN ValidationError("Amount must be a non-negative number", NoMoney)
    ELSE IF currency \notin VALID_CODES
    THEN ValidationError("Currency must be a valid Currency object", NoMoney)
    ELSE Ok([cls |-> "Money", amount |-> ToFixed2(amount), currency |-> currency])

\* Money.add
MoneyAdd(this, other) ==
    IF other.cls # "Money" \/ ~CurrencyEquals(this.currency, other.currency)
    THEN ValidationError("Cannot add Money with different currencies", NoMoney)
    ELSE MoneyNew(NumAdd(this.amount, other.amount), this.currency)

\* Money.multiply
MoneyMultiply(this, multiplier) ==
    IF ~NumberIsFinite(multiplier) \/ LtZero(multiplier)
    THEN ValidationError("Multiplier must be a non-negative number", NoMoney)
    ELSE MoneyNew(NumMul(this.amount, multiplier), this.currency)

\* --------------------------------------------------- PurchaseOrderState

VALID_STATES == {"Draft", "Submitted", "Approved", "Shipped", "Completed", "Canceled"}

NoState == ""

\* new PurchaseOrderState(value), with #validateState
PurchaseOrderStateNew(value) ==
    IF value \notin VALID_STATES
    THEN ValidationError("Invalid purchase order state", NoState)
    ELSE Ok(value)

\* toSubmittedFrom with a Canceled order allowed to be submitted again
toSubmittedFrom_Reopen(currentState) ==
    IF currentState \notin {"Draft", "Canceled"}
    THEN ValidationError("PurchaseOrder can only be submitted from Draft state", NoState)
    ELSE PurchaseOrderStateNew("Submitted")

toSubmittedFrom(currentState) ==
    IF currentState # "Draft"
    THEN ValidationError("PurchaseOrder can only be submitted from Draft state", NoState)
    ELSE PurchaseOrderStateNew("Submitted")

\* toApprovedFrom with the guard widened to let a Draft order through
toApprovedFrom_SkipSubmit(currentState) ==
    IF currentState \notin {"Draft", "Submitted"}
    THEN ValidationError("PurchaseOrder can only be approved from Submitted state", NoState)
    ELSE PurchaseOrderStateNew("Approved")

toApprovedFrom(currentState) ==
    IF currentState # "Submitted"
    THEN ValidationError("PurchaseOrder can only be approved from Submitted state", NoState)
    ELSE PurchaseOrderStateNew("Approved")

\* toShippedFrom with a Submitted order allowed to be shipped unapproved
toShippedFrom_SkipApprove(currentState) ==
    IF currentState \notin {"Submitted", "Approved"}
    THEN ValidationError("PurchaseOrder can only be shipped from Approved state", NoState)
    ELSE PurchaseOrderStateNew("Shipped")

toShippedFrom(currentState) ==
    IF currentState # "Approved"
    THEN ValidationError("PurchaseOrder can only be shipped from Approved state", NoState)
    ELSE PurchaseOrderStateNew("Shipped")

toCompletedFrom(currentState) ==
    IF currentState # "Shipped"
    THEN ValidationError("PurchaseOrder can only be completed from Shipped state", NoState)
    ELSE PurchaseOrderStateNew("Completed")

\* toCanceledFrom with an already Canceled order rejected as well
toCanceledFrom_RejectCanceled(currentState) ==
    IF currentState \in {"Completed", "Canceled"}
    THEN ValidationError("PurchaseOrder cannot be canceled once Completed", NoState)
    ELSE PurchaseOrderStateNew("Canceled")

\* toCanceledFrom without its Completed guard
toCanceledFrom_Unguarded(currentState) == PurchaseOrderStateNew("Canceled")

\* toCanceledFrom with a Shipped order refused as well
toCanceledFrom_NotOnceShipped(currentState) ==
    IF currentState \in {"Shipped", "Completed"}
    THEN ValidationError("PurchaseOrder cannot be canceled once Completed", NoState)
    ELSE PurchaseOrderStateNew("Canceled")

toCanceledFrom(currentState) ==
    IF currentState = "Completed"
    THEN ValidationError("PurchaseOrder cannot be canceled once Completed", NoState)
    ELSE PurchaseOrderStateNew("Canceled")

\* isDraft that also answers true for a Submitted order
isDraft_OrSubmitted(value) == value \in {"Draft", "Submitted"}

isDraft(value) == value = "Draft"

\* ---------------------------------------------------- PurchaseOrderItem

\* the strings that stand for UUIDs; every other string is not one
UuidStrings == {"uuid-1", "uuid-2", "supplier-1"}

\* validateUuid(value)
validateUuid(value) == value \in UuidStrings

\* a ProductId instance; its constructor has validated the UUID
ProductIdOf(uuid) == [cls |-> "ProductId", value |-> uuid]

\* a plain string handed in where a ProductId is expected
StringOf(text) == [cls |-> "string", value |-> text]

NoItem == [orderId |-> "", productId |-> StringOf(""), quantity |-> NaN, unitPrice |-> NoMoney]

\* the constructor with the upper limit of the quantity check left out
PurchaseOrderItemNew_NoUpperLimit(orderId, productId, quantity, unitPrice) ==
    IF orderId = ""
    THEN ValidationError("Order ID is required for PurchaseOrderItem", NoItem)
    ELSE IF productId.cls # "ProductId"
    THEN ValidationError("ProductId must be a valid ProductId object", NoItem)
    ELSE IF ~NumberIsInteger(quantity) \/ LeZero(quantity)
    THEN ValidationError("Quantity must be a positive integer not exceeding 1000", NoItem)
    ELSE IF unitPrice.cls # "Money"
    THEN ValidationError("Unit price must be a valid Money object", NoItem)
    ELSE Ok([orderId |-> orderId, productId |-> productId,
             quantity |-> quantity, unitPrice |-> unitPrice])

\* the constructor with the product id check left out
PurchaseOrderItemNew_AnyProduct(orderId, productId, quantity, unitPrice) ==
    IF orderId = ""
    THEN ValidationError("Order ID is required for PurchaseOrderItem", NoItem)
    ELSE IF ~NumberIsInteger(quantity) \/ LeZero(quantity) \/ GtThousand(quantity)
    THEN ValidationError("Quantity must be a positive integer not exceeding 1000", NoItem)
    ELSE IF unitPrice.cls # "Money"
    THEN ValidationError("Unit price must be a valid Money object", NoItem)
    ELSE Ok([orderId |-> orderId, productId |-> productId,
             quantity |-> quantity, unitPrice |-> unitPrice])

\* the constructor with the quantity compared by < 0 instead of <= 0
PurchaseOrderItemNew_ZeroAllowed(orderId, productId, quantity, unitPrice) ==
    IF orderId = ""
    THEN ValidationError("Order ID is required for PurchaseOrderItem", NoItem)
    ELSE IF productId.cls # "ProductId"
    THEN ValidationError("ProductId must be a valid ProductId object", NoItem)
    ELSE IF ~NumberIsInteger(quantity) \/ LtZero(quantity) \/ GtThousand(quantity)
    THEN ValidationError("Quantity must be a positive integer not exceeding 1000", NoItem)
    ELSE IF unitPrice.cls # "Money"
    THEN ValidationError("Unit price must be a valid Money object", NoItem)
    ELSE Ok([orderId |-> orderId, productId |-> productId,
             quantity |-> quantity, unitPrice |-> unitPrice])

\* the constructor with the quantity checked before the product id
PurchaseOrderItemNew_QuantityFirst(orderId, productId, quantity, unitPrice) ==
    IF orderId = ""
    THEN ValidationError("Order ID is required for PurchaseOrderItem", NoItem)
    ELSE IF ~NumberIsInteger(quantity) \/ LeZero(quantity) \/ GtThousand(quantity)
    THEN ValidationError("Quantity must be a positive integer not exceeding 1000", NoItem)
    ELSE IF productId.cls # "ProductId"
    THEN ValidationError("ProductId must be a valid ProductId object", NoItem)
    ELSE IF unitPrice.cls # "Money"
    THEN ValidationError("Unit price must be a valid Money object", NoItem)
    ELSE Ok([orderId |-> orderId, productId |-> productId,
             quantity |-> quantity, unitPrice |-> unitPrice])

\* new PurchaseOrderItem({orderId, productId, quantity, unitPrice})
PurchaseOrderItemNew(orderId, productId, quantity, unitPrice) ==
    IF orderId = ""
    THEN ValidationError("Order ID is required for PurchaseOrderItem", NoItem)
    ELSE IF productId.cls # "ProductId"
    THEN ValidationError("ProductId must be a valid ProductId object", NoItem)
    ELSE IF ~NumberIsInteger(quantity) \/ LeZero(quantity) \/ GtThousand(quantity)
    THEN ValidationError("Quantity must be a positive integer not exceeding 1000", NoItem)
    ELSE IF unitPrice.cls # "Money"
    THEN ValidationError("Unit price must be a valid Money object", NoItem)
    ELSE Ok([orderId |-> orderId, productId |-> productId,
             quantity |-> quantity, unitPrice |-> unitPrice])

\* PurchaseOrderItem.calculateSubtotal
calculateSubtotal(item) == MoneyMultiply(item.unitPrice, item.quantity)

\* -------------------------------------------------------- PurchaseOrder

MAX_ITEMS == 50

\* a SupplierId instance; its constructor has validated the UUID
SupplierIdOf(uuid) == [cls |-> "SupplierId", value |-> uuid]

\* a DateTime instance
DateTimeOf(iso) == [cls |-> "DateTime", value |-> iso]

Undefined == [cls |-> "undefined", value |-> ""]

Null == [cls |-> "null", value |-> ""]

\* an object of no class of this program
PlainObject == [cls |-> "object", value |-> ""]

\* !x on undefined, null, strings and objects
Falsy(x) == x.cls \in {"undefined", "null"} \/ x = StringOf("")

\* the argument of new PurchaseOrder(...); given is false when the call
\* passes none.  A Currency instance stands as its code (one of VALID_CODES),
\* every other value handed in as currency as a string that is no code.
PurchaseOrderArg(supplierId, currency, orderDate) ==
    [given |-> TRUE, supplierId |-> supplierId, currency |-> currency,
     orderDate |-> orderDate]

NoArgument ==
    [given |-> FALSE, supplierId |-> Undefined, currency |-> "undefined",
     orderDate |-> Undefined]

NoOrder ==
    [id |-> "", supplierId |-> Undefined, currency |-> "", orderDate |-> Undefined,
     items |-> <<>>, state |-> NoState]

\* the constructor with the currency check left out
PurchaseOrderNew_AnyCurrency(arg) ==
    IF ~arg.given
    THEN Throw("TypeError", "Cannot destructure property 'supplierId' of 'undefined'", NoOrder)
    ELSE IF Falsy(arg.supplierId)
    THEN ValidationError("SupplierId is required for PurchaseOrder", NoOrder)
    ELSE Ok([id |-> "order-1",
             supplierId |-> arg.supplierId,
             currency |-> arg.currency,
             orderDate |-> IF arg.orderDate.cls = "DateTime" THEN arg.orderDate
                           ELSE DateTimeOf("now"),
             items |-> <<>>,
             state |-> PurchaseOrderStateNew("Draft").value])

\* new PurchaseOrder({supplierId, currency, orderDate}): the fields of the new
\* order; "order-1" stands for the UUID generateUuid() returns
PurchaseOrderNew(arg) ==
    IF ~arg.given
    THEN Throw("TypeError", "Cannot destructure property 'supplierId' of 'undefined'", NoOrder)
    ELSE IF Falsy(arg.supplierId)
    THEN ValidationError("SupplierId is required for PurchaseOrder", NoOrder)
    ELSE IF arg.currency \notin VALID_CODES
    THEN ValidationError("Currency must be a valid Currency object", NoOrder)
    ELSE Ok([id |-> "order-1",
             supplierId |-> arg.supplierId,
             currency |-> arg.currency,
             orderDate |-> IF arg.orderDate.cls = "DateTime" THEN arg.orderDate
                           ELSE DateTimeOf("now"),
             items |-> <<>>,
             state |-> PurchaseOrderStateNew("Draft").value])

\* addItem with the limit compared by > instead of >=
addItem_OffByOne(poState, poItems, poCurrency, poId, arg) ==
    IF ~isDraft(poState)
    THEN ValidationError("Items can only be added to a PurchaseOrder in Draft state", poItems)
    ELSE IF Len(poItems) > MAX_ITEMS
    THEN ValidationError("PurchaseOrder cannot have more than 50 items", poItems)
    ELSE IF ~NumberIsFinite(arg.unitPrice) \/ LtZero(arg.unitPrice)
    THEN ValidationError("Unit price amount must be a non-negative number", poItems)
    ELSE LET price == MoneyNew(arg.unitPrice, poCurrency) IN
         IF price.outcome # "ok" THEN Throw(price.outcome, price.msg, poItems)
         ELSE LET item == PurchaseOrderItemNew(poId, arg.productId, arg.quantity, price.value) IN
              IF item.outcome # "ok" THEN Throw(item.outcome, item.msg, poItems)
              ELSE Ok(Append(poItems, item.value))

\* addItem that pushes a slot first and fills it in after building the item
addItem_PushFirst(poState, poItems, poCurrency, poId, arg) ==
    IF ~isDraft(poState)
    THEN ValidationError("Items can only be added to a PurchaseOrder in Draft state", poItems)
    ELSE IF Len(poItems) >= MAX_ITEMS
    THEN ValidationError("PurchaseOrder cannot have more than 50 items", poItems)
    ELSE IF ~NumberIsFinite(arg.unitPrice) \/ LtZero(arg.unitPrice)
    THEN ValidationError("Unit price amount must be a non-negative number", poItems)
    ELSE LET price == MoneyNew(arg.unitPrice, poCurrency) IN
         IF price.outcome # "ok" THEN Throw(price.outcome, price.msg, poItems)
         ELSE LET item == PurchaseOrderItemNew(poId, arg.productId, arg.quantity, price.value) IN
              IF item.outcome # "ok"
              THEN Throw(item.outcome, item.msg, Append(poItems, NoItem))
              ELSE Ok(Append(poItems, item.value))

\* addItem that prices every item in US dollars
addItem_DollarPrice(poState, poItems, poCurrency, poId, arg) ==
    IF ~isDraft(poState)
    THEN ValidationError("Items can only be added to a PurchaseOrder in Draft state", poItems)
    ELSE IF Len(poItems) >= MAX_ITEMS
    THEN ValidationError("PurchaseOrder cannot have more than 50 items", poItems)
    ELSE IF ~NumberIsFinite(arg.unitPrice) \/ LtZero(arg.unitPrice)
    THEN ValidationError("Unit price amount must be a non-negative number", poItems)
    ELSE LET price == MoneyNew(arg.unitPrice, "USD") IN
         IF price.outcome # "ok" THEN Throw(price.outcome, price.msg, poItems)
         ELSE LET item == PurchaseOrderItemNew(poId, arg.productId, arg.quantity, price.value) IN
              IF item.outcome # "ok" THEN Throw(item.outcome, item.msg, poItems)
              ELSE Ok(Append(poItems, item.value))

\* addItem that puts the new item in front of the others
addItem_Unshift(poState, poItems, poCurrency, poId, arg) ==
    IF ~isDraft(poState)
    THEN ValidationError("Items can only be added to a PurchaseOrder in Draft state", poItems)
    ELSE IF Len(poItems) >= MAX_ITEMS
    THEN ValidationError("PurchaseOrder cannot have more than 50 items", poItems)
    ELSE IF ~NumberIsFinite(arg.unitPrice) \/ LtZero(arg.unitPrice)
    THEN ValidationError("Unit price amount must be a non-negative number", poItems)
    ELSE LET price == MoneyNew(arg.unitPrice, poCurrency) IN
         IF price.outcome # "ok" THEN Throw(price.outcome, price.msg, poItems)
         ELSE LET item == PurchaseOrderItemNew(poId, arg.productId, arg.quantity, price.value) IN
              IF item.outcome # "ok" THEN Throw(item.outcome, item.msg, poItems)
              ELSE Ok(<<item.value>> \o poItems)

\* addItem({productId, quantity, unitPrice}) on an order with the given fields:
\* the item sequence after the call, or the error and the sequence untouched
addItem(poState, poItems, poCurrency, poId, arg) ==
    IF ~isDraft(poState)
    THEN ValidationError("Items can only be added to a PurchaseOrder in Draft state", poItems)
    ELSE IF Len(poItems) >= MAX_ITEMS
    THEN ValidationError("PurchaseOrder cannot have more than 50 items", poItems)
    ELSE IF ~NumberIsFinite(arg.unitPrice) \/ LtZero(arg.unitPrice)
    THEN ValidationError("Unit price amount must be a non-negative number", poItems)
    ELSE LET price == MoneyNew(arg.unitPrice, poCurrency) IN
         IF price.outcome # "ok" THEN Throw(price.outcome, price.msg, poItems)
         ELSE LET item == PurchaseOrderItemNew(poId, arg.productId, arg.quantity, price.value) IN
              IF item.outcome # "ok" THEN Throw(item.outcome, item.msg, poItems)
              ELSE Ok(Append(poItems, item.value))

\* items.reduce((sum, item) => sum.add(item.calculateSubtotal()), sum) from
\* position i on; the first throw ends the fold
RECURSIVE reduce(_, _, _)
reduce(sum, poItems, i) ==
    IF sum.outcome # "ok" \/ i > Len(poItems) THEN sum
    ELSE LET subtotal == calculateSubtotal(poItems[i]) IN
         IF subtotal.outcome # "ok" THEN subtotal
         ELSE reduce(MoneyAdd(sum.value, subtotal.value), poItems, i + 1)

\* calculateTotalPrice()
calculateTotalPrice(poItems, poCurrency) ==
    IF Len(poItems) = 0
    THEN ValidationError("Cannot calculate total price for an empty purchase order", NoMoney)
    ELSE reduce(MoneyNew(Fin(0), poCurrency), poItems, 1)

\* --------------------------------------------------------------- inputs

AddItemArg(productId, quantity, unitPrice) ==
    [productId |-> productId, quantity |-> quantity, unitPrice |-> unitPrice]

\* the item an order is filled up with: quantity 1 at 0.004, stored as 0.00
FillerInput == AddItemArg(ProductIdOf("uuid-2"), Fin(1000), Fin(4))

\* calls that can succeed: (5, 45.99), (10, 22.99), (1000, 1000 * 2^1013) and the filler
ValidInputs ==
    { AddItemArg(ProductIdOf("uuid-1"), Fin(5000), Fin(45990)),
      AddItemArg(ProductIdOf("uuid-2"), Fin(10000), Fin(22990)),
      AddItemArg(ProductIdOf("uuid-1"), Fin(1000000), Big(1000)),
      FillerInput }

\* calls with a bad product id, quantity or unit price, alone and together
InvalidInputs ==
    { AddItemArg(StringOf("invalid-uuid"), Fin(1000), Fin(10000)),
      AddItemArg(StringOf("uuid-1"), Fin(1000), Fin(10000)),
      AddItemArg(ProductIdOf("uuid-1"), Fin(1000), Fin(-5000)),
      AddItemArg(ProductIdOf("uuid-1"), Fin(1000), NaN),
      AddItemArg(ProductIdOf("uuid-1"), Fin(1000), Infinity),
      AddItemArg(ProductIdOf("uuid-1"), Fin(1000), NotNumber("string")),
      AddItemArg(ProductIdOf("uuid-1"), Fin(0), Fin(10000)),
      AddItemArg(ProductIdOf("uuid-1"), Fin(1001000), Fin(10000)),
      AddItemArg(ProductIdOf("uuid-1"), Fin(1500), Fin(10000)),
      AddItemArg(ProductIdOf("uuid-1"), Fin(-1000), Fin(10000)),
      AddItemArg(StringOf("invalid-uuid"), Fin(0), Fin(10000)),
      AddItemArg(StringOf("invalid-uuid"), Fin(0), Fin(-5000)) }

AddItemInputs == ValidInputs \cup InvalidInputs

NoInput == AddItemArg(StringOf(""), NaN, NaN)

\* the currencies orders are created in
OrderCurrencies == {"USD", "JPY"}

\* ---------------------------------------------------------------- state

VARIABLES
    id,          \* #id
    supplierId,  \* #supplierId
    currency,    \* #currency (its code)
    orderDate,   \* #orderDate
    items,       \* #items
    state,       \* #state (its value)
    call,        \* the last call made on the order: what was called with what,
                 \* the state value and the items it found, and how it ended
    history,     \* the state values the order has had, oldest first
    money,       \* two Money instances a caller of Money works with: the
                 \* receiver (this) and the argument (other) of its calls
    demo         \* the first try block of index.js: where it stands, its
                 \* supplier and what it has computed and reported

vars == <<id, supplierId, currency, orderDate, items, state, call, history, money, demo>>

NoMonies == [this |-> NoMoney, other |-> NoMoney]

\* null where a Money may stand
NullMoney == [cls |-> "null", amount |-> NaN, currency |-> ""]

NoError == [name |-> "", msg |-> ""]

\* index.js is not running
NoDemo ==
    [pc |-> "none", given |-> NullMoney, lastOrderTotalPrice |-> NullMoney,
     underscore |-> NullMoney, totalPrice |-> NullMoney, readBack |-> NoMoney,
     args |-> <<>>, error |-> NoError]

Called(op, arg, result, ret) ==
    [op |-> op, arg |-> arg, from |-> state, before |-> items,
     outcome |-> result.outcome, msg |-> result.msg, ret |-> ret]

\* new PurchaseOrder({supplierId, currency, orderDate}) with valid arguments
Init ==
    \E c \in OrderCurrencies :
        LET po == PurchaseOrderNew(PurchaseOrderArg(SupplierIdOf("supplier-1"), c,
                                    DateTimeOf("2025-04-10T10:00:00"))).value IN
        /\ id = po.id
        /\ supplierId = po.supplierId
        /\ currency = po.currency
        /\ orderDate = po.orderDate
        /\ items = po.items
        /\ state = po.state
        /\ call = [op |-> "constructor", arg |-> NoInput, from |-> "Draft", before |-> <<>>,
                   outcome |-> "ok", msg |-> "", ret |-> NoMoney]
        /\ history = <<"Draft">>
        /\ money = NoMonies
        /\ demo = NoDemo

\* Past MaxVaried items only an order of filler items grows, by one more
Filling(arg) ==
    /\ arg = FillerInput
    /\ \A i \in 1..Len(items) :
           /\ items[i].productId = FillerInput.productId
           /\ items[i].quantity = FillerInput.quantity

\* po.addItem(arg)
AddItem(arg) ==
    LET r == addItem(state, items, currency, id, arg) IN
    /\ (r.outcome = "ok" /\ Len(items) >= MaxVaried) => Filling(arg)
    /\ items' = r.value
    /\ call' = Called("addItem", arg, r, NoMoney)
    /\ UNCHANGED <<id, supplierId, currency, orderDate, state, history, money, demo>>

\* po.calculateTotalPrice()
CalculateTotalPrice ==
    LET r == calculateTotalPrice(items, currency) IN
    /\ call' = Called("calculateTotalPrice", NoInput, r, r.value)
    /\ UNCHANGED <<id, supplierId, currency, orderDate, items, state, history, money, demo>>

\* a lifecycle method that also stamps the order date when it succeeds
Transition_StampsDate(op, r) ==
    /\ state' = IF r.outcome = "ok" THEN r.value ELSE state
    /\ history' = IF r.outcome = "ok" /\ r.value # state
                  THEN Append(history, r.value) ELSE history
    /\ call' = Called(op, NoInput, r, NoMoney)
    /\ orderDate' = IF r.outcome = "ok" THEN DateTimeOf("now") ELSE orderDate
    /\ UNCHANGED <<id, supplierId, currency, items, money, demo>>

\* this.#state = <transition>(this.#state): the assignment happens only
\* when the transition returns
Transition(op, r) ==
    /\ state' = IF r.outcome = "ok" THEN r.value ELSE state
    /\ history' = IF r.outcome = "ok" /\ r.value # state
                  THEN Append(history, r.value) ELSE history
    /\ call' = Called(op, NoInput, r, NoMoney)
    /\ UNCHANGED <<id, supplierId, currency, orderDate, items, money, demo>>

Submit == Transition("submit", toSubmittedFrom(state))

Approve == Transition("approve", toApprovedFrom(state))

Ship == Transition("ship", toShippedFrom(state))

Complete == Transition("complete", toCompletedFrom(state))

Cancel == Transition("cancel", toCanceledFrom(state))

Next ==
    \/ \E arg \in AddItemInputs : AddItem(arg)
    \/ CalculateTotalPrice
    \/ Submit
    \/ Approve
    \/ Ship
    \/ Complete
    \/ Cancel

\* the order used through its methods only
Spec == Init /\ [][Next]_vars

\* a lifecycle call that returns
Succeeding(A) == A /\ call'.outcome = "ok"

\* the addItem calls made on the orders whose lifecycle is followed to its
\* end: the two items of the demo and one with a bad quantity
LifecycleInputs ==
    { AddItemArg(ProductIdOf("uuid-1"), Fin(5000), Fin(45990)),
      AddItemArg(ProductIdOf("uuid-2"), Fin(10000), Fin(22990)),
      AddItemArg(ProductIdOf("uuid-1"), Fin(0), Fin(10000)) }

\* po.addItem(arg) on an order of fewer than MaxVaried items
AddItemEarly(arg) ==
    LET r == addItem(state, items, currency, id, arg) IN
    /\ Len(items) < MaxVaried
    /\ items' = r.value
    /\ call' = Called("addItem", arg, r, NoMoney)
    /\ UNCHANGED <<id, supplierId, currency, orderDate, state, history, money, demo>>

NextFair ==
    \/ \E arg \in LifecycleInputs : AddItemEarly(arg)
    \/ CalculateTotalPrice
    \/ Submit
    \/ Approve
    \/ Ship
    \/ Complete
    \/ Cancel

\* orders of up to MaxVaried items used by a caller that does not for ever
\* leave uncalled a lifecycle method that would succeed
SpecFair ==
    /\ Init /\ [][NextFair]_vars
    /\ WF_vars(Succeeding(Submit))
    /\ WF_vars(Succeeding(Approve))
    /\ WF_vars(Succeeding(Ship))
    /\ WF_vars(Succeeding(Complete))
    /\ WF_vars(Succeeding(Cancel))

\* ------------------------------------------- a caller of the items accessor

\* get items() returns this.#items, the array the order itself works on:
\* what a caller does to the returned array is done to the order's items.
itemsAccessor(poItems) == poItems

\* a PurchaseOrderItem a caller builds with the exported constructor
CallerItem ==
    PurchaseOrderItemNew(id, FillerInput.productId, FillerInput.quantity,
                         MoneyNew(FillerInput.unitPrice, currency).value).value

\* po.items.push(item)
ItemsPush ==
    /\ Len(items) < MAX_ITEMS + MaxOverflow
    /\ Len(items) >= MaxVaried => Filling(FillerInput)
    /\ items' = Append(itemsAccessor(items), CallerItem)
    /\ call' = Called("items.push", NoInput, Ok(NoState), NoMoney)
    /\ UNCHANGED <<id, supplierId, currency, orderDate, state, history, money, demo>>

\* po.items.pop()
ItemsPop ==
    /\ items' = IF Len(items) = 0 THEN itemsAccessor(items)
                ELSE SubSeq(itemsAccessor(items), 1, Len(items) - 1)
    /\ call' = Called("items.pop", NoInput, Ok(NoState), NoMoney)
    /\ UNCHANGED <<id, supplierId, currency, orderDate, state, history, money, demo>>

NextWithCaller ==
    \/ Next
    \/ ItemsPush
    \/ ItemsPop

\* the order used by a caller that also works on the array po.items returns
SpecCaller == Init /\ [][NextWithCaller]_vars

\* ------------------------------ orders receiving the same items in any order

\* items of quantity 1 priced 2^53 (9007199254740992) and 1.00, and the two
\* items of the demo
OrderInputs ==
    { AddItemArg(ProductIdOf("uuid-1"), Fin(1000), Wide(1, 0)),
      AddItemArg(ProductIdOf("uuid-2"), Fin(1000), Fin(1000)),
      AddItemArg(ProductIdOf("uuid-1"), Fin(5000), Fin(45990)),
      AddItemArg(ProductIdOf("uuid-2"), Fin(10000), Fin(22990)) }

\* po.addItem(arg) on an order of fewer than MaxReceived items
AddItemInOrder(arg) ==
    LET r == addItem(state, items, currency, id, arg) IN
    /\ Len(items) < MaxReceived
    /\ items' = r.value
    /\ call' = Called("addItem", arg, r, NoMoney)
    /\ UNCHANGED <<id, supplierId, currency, orderDate, state, history, money, demo>>

NextOrders ==
    \/ \E arg \in OrderInputs : AddItemInOrder(arg)
    \/ CalculateTotalPrice

\* Draft orders of up to MaxReceived items, built in every order of arrival
SpecOrders == Init /\ [][NextOrders]_vars

\* ------------------------------------------------------- the constructor

\* what callers hand in as supplierId, currency and orderDate
SupplierIdInputs ==
    { SupplierIdOf("supplier-1"), Undefined, Null, StringOf(""),
      StringOf("not-a-uuid"), PlainObject, ProductIdOf("uuid-1") }

CurrencyInputs == VALID_CODES \cup {"undefined", "'USD'"}

OrderDateInputs == { DateTimeOf("2025-04-10T10:00:00"), Undefined, StringOf("2025-04-10") }

ConstructorInputs ==
    { PurchaseOrderArg(s, c, d) :
          s \in SupplierIdInputs, c \in CurrencyInputs, d \in OrderDateInputs }
    \cup {NoArgument}

\* no order has been constructed yet
InitNew ==
    /\ id = NoOrder.id
    /\ supplierId = NoOrder.supplierId
    /\ currency = NoOrder.currency
    /\ orderDate = NoOrder.orderDate
    /\ items = NoOrder.items
    /\ state = NoOrder.state
    /\ call = [op |-> "none", arg |-> NoArgument, from |-> NoState, before |-> <<>>,
               outcome |-> "ok", msg |-> "", ret |-> NoMoney]
    /\ history = <<>>
    /\ money = NoMonies
    /\ demo = NoDemo

\* po = new PurchaseOrder(arg): the variables hold the order the caller got,
\* or no order when the constructor threw
Construct(arg) ==
    LET r == PurchaseOrderNew(arg) IN
    /\ id' = r.value.id
    /\ supplierId' = r.value.supplierId
    /\ currency' = r.value.currency
    /\ orderDate' = r.value.orderDate
    /\ items' = r.value.items
    /\ state' = r.value.state
    /\ call' = [op |-> "constructor", arg |-> arg, from |-> NoState, before |-> <<>>,
                outcome |-> r.outcome, msg |-> r.msg, ret |-> NoMoney]
    /\ history' = IF r.outcome = "ok" THEN <<r.value.state>> ELSE <<>>
    /\ UNCHANGED <<money, demo>>

NextNew == \E arg \in ConstructorInputs : Construct(arg)

\* orders being constructed from every combination of arguments
SpecNew == InitNew /\ [][NextNew]_vars

\* ----------------------------------------------------- a caller of Money

\* amounts handed to new Money(...): 0, 0.004, 1.00, 10.006, 45.99, 2^53,
\* 1500 * 2^1013 (1.3e308), -5, NaN, Infinity and a string
AmountInputs ==
    { Fin(0), Fin(4), Fin(1000), Fin(10006), Fin(45990), Wide(1, 0), Big(1500),
      Fin(-5000), NaN, Infinity, NotNumber("string") }

\* currencies handed to new Money(...): two Currency instances, undefined
\* and the string 'USD'
MoneyCurrencyInputs == {"USD", "EUR", "undefined", "'USD'"}

\* multipliers: 0, 2, 1000, -1, NaN, Infinity, a string, and 0.333 for the
\* amounts below 2^53
MultiplierInputs(amount) ==
    { Fin(0), Fin(2000), Fin(1000000), Fin(-1000), NaN, Infinity, NotNumber("string") }
    \cup (IF amount.t = "fin" THEN {Fin(333)} ELSE {})

MoneyCalled(op, amount, code, multiplier, result) ==
    [op |-> op, amount |-> amount, currency |-> code, multiplier |-> multiplier,
     this |-> money.this, other |-> money.other,
     outcome |-> result.outcome, msg |-> result.msg, ret |-> result.value]

\* no Money has been constructed yet
InitMoney ==
    /\ id = NoOrder.id
    /\ supplierId = NoOrder.supplierId
    /\ currency = NoOrder.currency
    /\ orderDate = NoOrder.orderDate
    /\ items = NoOrder.items
    /\ state = NoOrder.state
    /\ history = <<>>
    /\ money = NoMonies
    /\ demo = NoDemo
    /\ call = [op |-> "none", amount |-> NaN, currency |-> "", multiplier |-> NaN,
               this |-> NoMoney, other |-> NoMoney,
               outcome |-> "ok", msg |-> "", ret |-> NoMoney]

\* m = new Money({amount, currency}): the caller goes on with m as the
\* receiver and with the former receiver as the argument
NewMoney(amount, code) ==
    LET r == MoneyNew(amount, code) IN
    /\ money' = IF r.outcome = "ok" THEN [this |-> r.value, other |-> money.this]
                ELSE money
    /\ call' = MoneyCalled("Money", amount, code, NaN, r)
    /\ UNCHANGED <<id, supplierId, currency, orderDate, items, state, history, demo>>

\* add that accumulates the sum in the receiver
Add_Accumulating ==
    LET r == MoneyAdd(money.this, money.other) IN
    /\ money.this.cls = "Money"
    /\ call' = MoneyCalled("add", NaN, "", NaN, r)
    /\ money' = IF r.outcome = "ok" THEN [money EXCEPT !.this = r.value] ELSE money
    /\ UNCHANGED <<id, supplierId, currency, orderDate, items, state, history, demo>>

\* this.add(other): #amount and #currency are read, never assigned
Add ==
    /\ money.this.cls = "Money"
    /\ call' = MoneyCalled("add", NaN, "", NaN, MoneyAdd(money.this, money.other))
    /\ UNCHANGED <<id, supplierId, currency, orderDate, items, state, history, money, demo>>

\* this.multiply(multiplier): #amount and #currency are read, never assigned
Multiply(multiplier) ==
    /\ money.this.cls = "Money"
    /\ call' = MoneyCalled("multiply", NaN, "", multiplier,
                           MoneyMultiply(money.this, multiplier))
    /\ UNCHANGED <<id, supplierId, currency, orderDate, items, state, history, money, demo>>

NextMoney ==
    \/ \E amount \in AmountInputs, code \in MoneyCurrencyInputs : NewMoney(amount, code)
    \/ Add
    \/ \E multiplier \in MultiplierInputs(money.this.amount) : Multiply(multiplier)

\* Money instances being constructed, added and multiplied
SpecMoney == InitMoney /\ [][NextMoney]_vars

\* ------------------------------------------ the first try block of index.js

\* new Supplier({id, name: "Acme Corp", contactEmail: "contact@acme.com",
\* lastOrderTotalPrice}): the private field #lastOrderTotalPrice
SupplierNew(supplierIdGiven, lastOrderTotalPrice) ==
    IF supplierIdGiven.cls # "SupplierId"
    THEN ValidationError("Supplier ID must be a valid SupplierId object", NullMoney)
    ELSE IF lastOrderTotalPrice # NullMoney /\ lastOrderTotalPrice.cls # "Money"
    THEN ValidationError("Last order total price must be a Money object or null", NullMoney)
    ELSE Ok(lastOrderTotalPrice)

\* get lastOrderTotalPrice() returns #lastOrderTotalPrice; .toString() on what
\* it returned throws a TypeError when that is null
lastOrderTotalPriceToString(privateField) ==
    IF privateField = NullMoney
    THEN Throw("TypeError", "Cannot read properties of null (reading 'toString')", NullMoney)
    ELSE Ok(privateField)

\* the lastOrderTotalPrice the supplier is constructed with: none, as in
\* index.js, or the total of an earlier order
EarlierTotals == {NullMoney, MoneyNew(Fin(100000), "USD").value}

\* the item added after the submission: quantity 1 at 10.00
LateInput == AddItemArg(ProductIdOf("uuid-1"), Fin(1000), Fin(10000))

\* lines 11-21: the supplier and the order are constructed
InitDemo ==
    \E c \in OrderCurrencies, earlier \in EarlierTotals :
        LET po == PurchaseOrderNew(PurchaseOrderArg(SupplierIdOf("supplier-1"), c,
                                    DateTimeOf("2025-04-10T10:00:00"))).value IN
        /\ id = po.id
        /\ supplierId = po.supplierId
        /\ currency = po.currency
        /\ orderDate = po.orderDate
        /\ items = po.items
        /\ state = po.state
        /\ call = [op |-> "constructor", arg |-> NoInput, from |-> "Draft", before |-> <<>>,
                   outcome |-> "ok", msg |-> "", ret |-> NoMoney]
        /\ history = <<"Draft">>
        /\ money = NoMonies
        /\ demo = [NoDemo EXCEPT
                       !.pc = "addItem",
                       !.given = earlier,
                       !.lastOrderTotalPrice =
                           SupplierNew(SupplierIdOf("supplier-1"), earlier).value]

\* a throw inside the try block ends it in the catch, which reports the message
Caught(r) == [demo EXCEPT !.pc = "caught", !.error = [name |-> r.outcome, msg |-> r.msg]]

\* lines 23-33: po.addItem(...), twice
DemoAddItem(arg) ==
    LET r == addItem(state, items, currency, id, arg) IN
    /\ demo.pc = "addItem"
    /\ items' = r.value
    /\ call' = Called("addItem", arg, r, NoMoney)
    /\ demo' = IF r.outcome # "ok" THEN Caught(r)
               ELSE [demo EXCEPT !.args = Append(demo.args, arg),
                                 !.pc = IF Len(demo.args) = 1 THEN "calculateTotalPrice"
                                        ELSE "addItem"]
    /\ UNCHANGED <<id, supplierId, currency, orderDate, state, history, money>>

\* line 35: const totalPrice = po.calculateTotalPrice()
DemoCalculateTotalPrice ==
    LET r == calculateTotalPrice(items, currency) IN
    /\ demo.pc = "calculateTotalPrice"
    /\ call' = Called("calculateTotalPrice", NoInput, r, r.value)
    /\ demo' = IF r.outcome # "ok" THEN Caught(r)
               ELSE [demo EXCEPT !.totalPrice = r.value, !.pc = "assign"]
    /\ UNCHANGED <<id, supplierId, currency, orderDate, items, state, history, money>>

\* line 39: supplier._lastOrderTotalPrice = totalPrice makes a property of
\* that name; the private field #lastOrderTotalPrice is another thing
DemoAssign ==
    /\ demo.pc = "assign"
    /\ demo' = [demo EXCEPT !.underscore = demo.totalPrice, !.pc = "readBack"]
    /\ UNCHANGED <<id, supplierId, currency, orderDate, items, state, call, history, money>>

\* line 40: supplier.lastOrderTotalPrice.toString()
DemoReadBack ==
    LET r == lastOrderTotalPriceToString(demo.lastOrderTotalPrice) IN
    /\ demo.pc = "readBack"
    /\ demo' = IF r.outcome # "ok"
               THEN [Caught(r) EXCEPT !.readBack = demo.lastOrderTotalPrice]
               ELSE [demo EXCEPT !.readBack = demo.lastOrderTotalPrice, !.pc = "submit"]
    /\ UNCHANGED <<id, supplierId, currency, orderDate, items, state, call, history, money>>

\* line 43: po.submit()
DemoSubmit ==
    LET r == toSubmittedFrom(state) IN
    /\ demo.pc = "submit"
    /\ state' = IF r.outcome = "ok" THEN r.value ELSE state
    /\ history' = IF r.outcome = "ok" /\ r.value # state
                  THEN Append(history, r.value) ELSE history
    /\ call' = Called("submit", NoInput, r, NoMoney)
    /\ demo' = IF r.outcome # "ok" THEN Caught(r) ELSE [demo EXCEPT !.pc = "lateAddItem"]
    /\ UNCHANGED <<id, supplierId, currency, orderDate, items, money>>

\* lines 46-50: po.addItem(...) after the submission
DemoLateAddItem ==
    LET r == addItem(state, items, currency, id, LateInput) IN
    /\ demo.pc = "lateAddItem"
    /\ items' = r.value
    /\ call' = Called("addItem", LateInput, r, NoMoney)
    /\ demo' = IF r.outcome # "ok" THEN Caught(r) ELSE [demo EXCEPT !.pc = "end"]
    /\ UNCHANGED <<id, supplierId, currency, orderDate, state, history, money>>

NextDemo ==
    \/ \E arg \in AddItemInputs : DemoAddItem(arg)
    \/ DemoCalculateTotalPrice
    \/ DemoAssign
    \/ DemoReadBack
    \/ DemoSubmit
    \/ DemoLateAddItem

\* the first try block, run with every pair of addItem arguments
SpecDemo == InitDemo /\ [][NextDemo]_vars

\* ---------------------------------------------------- lifecycle claims

ForwardSource ==
    [submit |-> "Draft", approve |-> "Submitted", ship |-> "Approved", complete |-> "Shipped"]

ForwardTarget ==
    [submit |-> "Submitted", approve |-> "Approved", ship |-> "Shipped", complete |-> "Completed"]

LifecycleOps == {"submit", "approve", "ship", "complete", "cancel"}

\* C1: submit, approve, ship and complete each succeed exactly when the order
\* is in the one state the step starts from (Draft, Submitted, Approved,
\* Shipped), the state is then the step's target, and in every other state
\* the call fails with ValidationError.
C1_ForwardTransitions ==
    \A op \in DOMAIN ForwardSource :
        call.op = op =>
            /\ call.outcome = "ok" <=> call.from = ForwardSource[op]
            /\ call.outcome = "ok" => state = ForwardTarget[op]
            /\ call.outcome # "ok" => call.outcome = "ValidationError"

\* an order that went all the way: complete() has just succeeded
C1_Witness ==
    /\ call.op = "complete" /\ call.outcome = "ok" /\ call.from = "Shipped"
    /\ state = "Completed"

\* C2: cancel succeeds and yields Canceled from every state but Completed,
\* Canceled included, and fails with ValidationError from Completed; a second
\* cancel leaves the state Canceled and the items as they were.
C2_Cancel ==
    call.op = "cancel" =>
        IF call.from = "Completed"
        THEN call.outcome = "ValidationError" /\ state = "Completed"
        ELSE call.outcome = "ok" /\ state = "Canceled" /\ items = call.before

\* cancel() called on an order that was Canceled already
C2_Witness ==
    /\ call.op = "cancel" /\ call.from = "Canceled" /\ call.outcome = "ok"
    /\ state = "Canceled"

LifecycleEdges ==
    { <<"Draft", "Submitted">>, <<"Submitted", "Approved">>,
      <<"Approved", "Shipped">>, <<"Shipped", "Completed">> }
    \cup { <<x, "Canceled">> : x \in {"Draft", "Submitted", "Approved", "Shipped"} }

\* C3: the state value is always one of the six values; every change of it,
\* whatever was called, is Draft->Submitted, Submitted->Approved,
\* Approved->Shipped, Shipped->Completed or X->Canceled with X # Completed;
\* and a state value the order has left never comes back.
C3_OnlyLifecycleEdges ==
    /\ state \in VALID_STATES
    /\ history[1] = "Draft" /\ history[Len(history)] = state
    /\ call.from # state => <<call.from, state>> \in LifecycleEdges
    /\ \A i \in 1..(Len(history) - 1) : <<history[i], history[i + 1]>> \in LifecycleEdges
    /\ \A i, j \in 1..Len(history) : i # j => history[i] # history[j]

\* an order canceled after it was shipped
C3_Witness == history = <<"Draft", "Submitted", "Approved", "Shipped", "Canceled">>

\* C4: Completed and Canceled are terminal: a call that finds the order
\* Completed or Canceled leaves it so; on a Completed order every lifecycle
\* method fails, on a Canceled order submit, approve, ship and complete fail.
C4_Terminal ==
    /\ call.from \in {"Completed", "Canceled"} => state = call.from
    /\ \A i \in 1..(Len(history) - 1) : history[i] \notin {"Completed", "Canceled"}
    /\ (call.from = "Completed" /\ call.op \in LifecycleOps)
           => call.outcome = "ValidationError"
    /\ (call.from = "Canceled" /\ call.op \in DOMAIN ForwardSource)
           => call.outcome = "ValidationError"

\* cancel() refused on a Completed order
C4_Witness ==
    /\ call.op = "cancel" /\ call.from = "Completed"
    /\ call.outcome = "ValidationError" /\ state = "Completed"

\* -------------------------------------------------------- addItem claims

\* a unit price that is a finite number and not negative
PriceAccepted(p) == p.t \in {"fin", "big"} /\ (p.t = "fin" => p.v >= 0)

\* a quantity that is an integer in [1, 1000]
QuantityAccepted(q) == q.t = "fin" /\ q.v % 1000 = 0 /\ q.v >= 1000 /\ q.v <= 1000000

\* C5 as stated: addItem succeeds exactly when the order is Draft, holds fewer
\* than 50 items and the unit price is a finite non-negative number, and fails
\* with ValidationError otherwise.
C5_AsStated ==
    call.op = "addItem" =>
        /\ call.outcome \in {"ok", "ValidationError"}
        /\ call.outcome = "ok" <=>
               /\ call.from = "Draft"
               /\ Len(call.before) < 50
               /\ PriceAccepted(call.arg.unitPrice)

\* C5 amended: addItem succeeds, appending one item, exactly when the order is
\* Draft, holds fewer than 50 items, the unit price is a finite non-negative
\* number, the product id is a ProductId object and the quantity is an integer
\* in [1, 1000]; otherwise it fails with ValidationError.
C5_AddItemOutcome ==
    call.op = "addItem" =>
        /\ call.outcome \in {"ok", "ValidationError"}
        /\ call.outcome = "ok" <=>
               /\ call.from = "Draft"
               /\ Len(call.before) < 50
               /\ PriceAccepted(call.arg.unitPrice)
               /\ call.arg.productId.cls = "ProductId"
               /\ QuantityAccepted(call.arg.quantity)
        /\ call.outcome = "ok" => Len(items) = Len(call.before) + 1

\* a Draft order with room refuses an item for its quantity alone
C5_Witness ==
    /\ call.op = "addItem" /\ call.from = "Draft" /\ Len(call.before) < 50
    /\ PriceAccepted(call.arg.unitPrice)
    /\ call.arg.productId.cls = "ProductId"
    /\ ~QuantityAccepted(call.arg.quantity)
    /\ call.outcome = "ValidationError"

\* C6: nothing a caller does to the sequence the items accessor returned
\* changes the order's own item sequence (nor, with it, the item count and
\* the total).
C6_ItemsViewReadOnly ==
    call.op \in {"items.push", "items.pop"} => items = call.before

C9_FailureChangesNothing ==
    (call.op \in LifecycleOps \cup {"addItem"} /\ call.outcome # "ok")
        => items = call.before /\ state = call.from

\* addItem failing on the quantity, after the price was accepted, on an order
\* that holds an item
C9_Witness ==
    /\ call.op = "addItem" /\ call.from = "Draft" /\ Len(items) = 1
    /\ call.msg = "Quantity must be a positive integer not exceeding 1000"
    /\ call.outcome = "ValidationError"

\* ------------------------------------------------------ the total claims

\* quantity x unit price summed over the items, without any rounding
RECURSIVE SumOfSubtotals(_, _)
SumOfSubtotals(poItems, i) ==
    IF i > Len(poItems) THEN Fin(0)
    ELSE NumAdd(NumMul(poItems[i].unitPrice.amount, poItems[i].quantity),
                SumOfSubtotals(poItems, i + 1))

\* C10: calculateTotalPrice fails with ValidationError exactly when the order
\* has no items; otherwise it returns a Money in the order's currency whose
\* amount is the sum of quantity x unit price over the items.
C10_TotalPrice ==
    call.op = "calculateTotalPrice" =>
        /\ call.outcome = "ValidationError" <=> Len(call.before) = 0
        /\ Len(call.before) > 0 =>
               /\ call.outcome = "ok"
               /\ call.ret.cls = "Money"
               /\ call.ret.currency = currency
               /\ call.ret.amount = SumOfSubtotals(items, 1)

\* ------------------------------------------------- order of arrival claims

\* the orders of arrival of n items
Arrivals(n) == {p \in [1..n -> 1..n] : \A i, j \in 1..n : i # j => p[i] # p[j]}

\* the item sequence of the order that received the same items in the order p
Rearranged(poItems, p) == [i \in 1..Len(poItems) |-> poItems[p[i]]]

\* C11: the total an order returns is the total returned by every order in
\* the same currency that received the same items in another order of arrival.
C11_TotalIgnoresArrivalOrder ==
    call.op = "calculateTotalPrice" =>
        \A p \in Arrivals(Len(items)) :
            LET other == calculateTotalPrice(Rearranged(items, p), currency) IN
            /\ other.outcome = call.outcome
            /\ other.value = call.ret

\* ------------------------------------------------------------ item claims

QuantityDecides ==
    /\ call.op = "addItem" /\ call.from = "Draft" /\ Len(call.before) < 50
    /\ PriceAccepted(call.arg.unitPrice)
    /\ call.arg.productId.cls = "ProductId"

\* C13: on a Draft order with room, with a valid product id and price, addItem
\* succeeds for the quantities 1 and 1000 and fails with ValidationError for
\* 0, for 1001, for every negative and for every non-integer quantity.
C13_QuantityBoundaries ==
    QuantityDecides =>
        LET q == call.arg.quantity IN
        /\ q \in {Fin(1000), Fin(1000000)}
               => /\ call.outcome = "ok"
                  /\ Len(items) = Len(call.before) + 1
                  /\ items[Len(items)].quantity = q
        /\ (q \in {Fin(0), Fin(1001000)} \/ LtZero(q) \/ (q.t = "fin" /\ q.v % 1000 # 0))
               => /\ call.outcome = "ValidationError"
                  /\ items = call.before

\* 1001 refused by an order whose last item was accepted with quantity 1000
C13_Witness ==
    /\ QuantityDecides
    /\ call.arg.quantity = Fin(1001000) /\ call.outcome = "ValidationError"
    /\ Len(items) >= 1 /\ items[Len(items)].quantity = Fin(1000000)

\* a valid Money: a finite amount that is not negative, in one of the four
\* currencies
ValidMoney(m) ==
    /\ m.cls = "Money"
    /\ NumberIsFinite(m.amount) /\ ~LtZero(m.amount)
    /\ m.currency \in {"USD", "EUR", "GBP", "JPY"}

SupplierIdAbsent(arg) == arg.supplierId \in {Undefined, Null, StringOf("")}

\* the currency is a Currency instance, of one of the four codes
CurrencyValid(arg) == arg.currency \in {"USD", "EUR", "GBP", "JPY"}

C16_SupplierIdValid ==
    /\ id # NoOrder.id => supplierId.cls = "SupplierId" /\ validateUuid(supplierId.value)
    /\ (/\ call.op = "constructor"
        /\ call.arg.given
        /\ call.arg.supplierId.cls # "SupplierId")
           => call.outcome = "ValidationError"

\* C19: every call returns or throws a ValidationError, whatever it is given,
\* a missing argument included.
C19_OnlyValidationErrors == call.outcome \in {"ok", "ValidationError"}

\* ----------------------------------------------------------- Money claims

\* a number read exactly: b * 2^1013 + h * 2^53 + m / 1000
Exact(x) ==
    [b |-> IF x.t = "big" THEN x.v ELSE 0,
     h |-> IF x.t = "wide" THEN x.hi ELSE 0,
     m |-> IF x.t = "fin" THEN x.v ELSE IF x.t = "wide" THEN x.v * 1000 ELSE 0]

\* r is a finite number and exactly x + y
IsSumOf(r, x, y) ==
    /\ r.t \in {"fin", "wide", "big"}
    /\ Exact(r).b = Exact(x).b + Exact(y).b
    /\ Exact(r).h = Exact(x).h + Exact(y).h
    /\ Exact(r).m = Exact(x).m + Exact(y).m

\* at most two decimals: a whole number of cents
TwoDecimals(x) == x.t = "fin" => x.v % 10 = 0

\* C17: add fails with ValidationError when the argument is not a Money or is
\* in another currency; otherwise it returns a Money in the receiver's
\* currency whose amount is the sum of the two amounts, not negative and of
\* at most two decimals.
C17_Add ==
    call.op = "add" =>
        IF call.other.cls # "Money" \/ call.other.currency # call.this.currency
        THEN call.outcome = "ValidationError"
        ELSE /\ call.outcome = "ok"
             /\ call.ret.cls = "Money"
             /\ call.ret.currency = call.this.currency
             /\ IsSumOf(call.ret.amount, call.this.amount, call.other.amount)
             /\ ~(call.ret.amount.t = "fin" /\ call.ret.amount.v < 0)
             /\ TwoDecimals(call.ret.amount)

\* a number that is finite
FiniteNumber(x) == x.t \in {"fin", "wide", "big"}

\* a negative number
NegativeNumber(x) == x.t = "fin" /\ x.v < 0

\* the Money instances there are: the two the caller holds and the one the
\* last call returned
MoneyInstances == {m \in {money.this, money.other, call.ret} : m.cls = "Money"}

\* C18: new Money fails with ValidationError, and makes no instance, when the
\* amount is negative or not finite or the currency is no Currency instance;
\* multiply fails with ValidationError when the multiplier is negative or
\* not finite; and every Money instance, the results of add and multiply
\* included, has an amount of at least 0 and one of the four currency codes.
C18_MoneyValid ==
    /\ (/\ call.op = "Money"
        /\ \/ NegativeNumber(call.amount)
           \/ ~FiniteNumber(call.amount)
           \/ call.currency \notin {"USD", "EUR", "GBP", "JPY"})
           => /\ call.outcome = "ValidationError"
              /\ call.ret.cls # "Money"
              /\ money = [this |-> call.this, other |-> call.other]
    /\ (/\ call.op = "multiply"
        /\ NegativeNumber(call.multiplier) \/ ~FiniteNumber(call.multiplier))
           => call.outcome = "ValidationError" /\ call.ret.cls # "Money"
    /\ \A m \in MoneyInstances :
           /\ FiniteNumber(m.amount) /\ ~NegativeNumber(m.amount)
           /\ m.currency \in {"USD", "EUR", "GBP", "JPY"}

\* a negative multiplier refused by a Money that came out of rounding 10.006
C18_Witness ==
    /\ call.op = "multiply" /\ call.multiplier = Fin(-1000)
    /\ call.outcome = "ValidationError"
    /\ call.msg = "Multiplier must be a non-negative number"
    /\ money.this.amount = Fin(10010) /\ money.other.cls = "Money"

\* C20: add and multiply leave the amount and the currency of the receiver
\* and of the argument as they were, whether they return or throw, and a new
\* Money changes no Money there was.
C20_MoneyPure ==
    /\ call.op \in {"add", "multiply"}
           => money.this = call.this /\ money.other = call.other
    /\ call.op = "Money"
           => /\ call.outcome = "ok" => money.other = call.this
              /\ call.outcome # "ok" => money = [this |-> call.this, other |-> call.other]

\* an add that returned a sum differing from both of its operands
C20_Witness ==
    /\ call.op = "add" /\ call.outcome = "ok"
    /\ call.ret.amount # call.this.amount /\ call.ret.amount # call.other.amount
    /\ money.this = call.this /\ money.other = call.other

\* ----------------------------------------------------------- frame claims

\* the step is an addItem that returned
AddItemSucceeded == call'.op = "addItem" /\ call'.outcome = "ok"

\* what a successful addItem leaves alone, and where it puts the new item
AddItemFrame ==
    /\ Len(items') = Len(items) + 1
    /\ SubSeq(items', 1, Len(items)) = items
    /\ items'[Len(items')].productId = call'.arg.productId
    /\ items'[Len(items')].quantity = call'.arg.quantity
    /\ items'[Len(items')].unitPrice.currency = currency
    /\ state = "Draft" /\ state' = state
    /\ id' = id /\ supplierId' = supplierId
    /\ currency' = currency /\ orderDate' = orderDate

\* a number of thousandths rounded to the nearest cent
RoundedToCents(x) == IF x.t = "fin" THEN [x EXCEPT !.v = ((x.v + 5) \div 10) * 10] ELSE x

\* C21 as stated: a successful addItem appends exactly one item, keeps the
\* items held before in place, leaves state, id, supplierId, currency and
\* orderDate alone, and the new last item's unit price is the given number.
C21_AsStated ==
    [][AddItemSucceeded =>
           /\ AddItemFrame
           /\ items'[Len(items')].unitPrice.amount = call'.arg.unitPrice]_vars

\* C21 amended: as above, with the new last item's unit price being the given
\* number rounded to two decimals.
C21_AddItemAppendsOne ==
    [][AddItemSucceeded =>
           /\ AddItemFrame
           /\ items'[Len(items')].unitPrice.amount = RoundedToCents(call'.arg.unitPrice)]_vars

\* a second item appended behind the first, its price of 0.004 held as 0.00
C21_Witness ==
    /\ call.op = "addItem" /\ call.outcome = "ok"
    /\ Len(call.before) = 1 /\ Len(items) = 2 /\ items[1] = call.before[1]
    /\ items[1].productId # items[2].productId
    /\ call.arg.unitPrice = Fin(4) /\ items[2].unitPrice.amount = Fin(0)

\* C22: a call of submit, approve, ship, complete or cancel, returning or
\* throwing, leaves the items, id, supplierId, currency and orderDate as they
\* were, so calculateTotalPrice gives after the call what it gave before it.
C22_LifecycleTouchesOnlyState ==
    [][call'.op \in LifecycleOps =>
           /\ items' = items
           /\ id' = id /\ supplierId' = supplierId
           /\ currency' = currency /\ orderDate' = orderDate
           /\ calculateTotalPrice(items', currency') = calculateTotalPrice(items, currency)]_vars

\* an order of two different items that has just been approved
C22_Witness ==
    /\ call.op = "approve" /\ call.outcome = "ok" /\ state = "Approved"
    /\ Len(items) = 2 /\ items = call.before
    /\ items[1].unitPrice.amount # items[2].unitPrice.amount
    /\ calculateTotalPrice(items, currency).outcome = "ok"

\* ------------------------------------------------------ error order claims

\* the error addItem is to report: the first that applies of not Draft, full,
\* invalid unit price, invalid product id, invalid quantity; "" when none does
FirstFailure(poState, poItems, arg) ==
    IF poState # "Draft"
    THEN "Items can only be added to a PurchaseOrder in Draft state"
    ELSE IF Len(poItems) >= 50
    THEN "PurchaseOrder cannot have more than 50 items"
    ELSE IF ~PriceAccepted(arg.unitPrice)
    THEN "Unit price amount must be a non-negative number"
    ELSE IF arg.productId.cls # "ProductId"
    THEN "ProductId must be a valid ProductId object"
    ELSE IF ~QuantityAccepted(arg.quantity)
    THEN "Quantity must be a positive integer not exceeding 1000"
    ELSE ""

\* C23: addItem reports the first failure that applies, in the order not
\* Draft, 50 items held, invalid unit price, invalid product id, invalid
\* quantity: a ValidationError with that failure's message, and success only
\* when none applies.
C23_FirstFailureReported ==
    call.op = "addItem" =>
        LET expected == FirstFailure(call.from, call.before, call.arg) IN
        /\ call.msg = expected
        /\ expected # "" => call.outcome = "ValidationError"
        /\ expected = "" => call.outcome = "ok"

\* a full Draft order handed a bad product id, quantity and price reports
\* the item limit
C23_Witness ==
    /\ call.op = "addItem" /\ call.from = "Draft" /\ Len(call.before) = 50
    /\ call.arg.productId.cls = "string"
    /\ ~QuantityAccepted(call.arg.quantity)
    /\ ~PriceAccepted(call.arg.unitPrice)
    /\ call.msg = "PurchaseOrder cannot have more than 50 items"

\* ------------------------------------------------------------ query claims

\* C24: calculateTotalPrice changes neither the state nor the items, succeeds
\* exactly when the order holds items, whatever its state, and a call that
\* directly follows another returns what that one returned.
C24_TotalIsPureQuery ==
    /\ [](call.op = "calculateTotalPrice" =>
              /\ state = call.from /\ items = call.before
              /\ call.outcome = "ok" <=> Len(items) > 0)
    /\ [][(call.op = "calculateTotalPrice" /\ call'.op = "calculateTotalPrice") =>
              /\ call'.outcome = call.outcome
              /\ call'.ret = call.ret]_vars

\* --------------------------------------------------------- ordering claims

\* the state values the successful calls of submit, approve, ship and
\* complete lead through, in their order
ForwardChain == <<"Draft", "Submitted", "Approved", "Shipped", "Completed">>

\* the history up to a cancel that succeeded on an order not yet Canceled
BeforeCancel ==
    IF history[Len(history)] = "Canceled" THEN SubSeq(history, 1, Len(history) - 1)
    ELSE history

\* C25: every successful submit, approve, ship or complete adds its target
\* to the states the order has had, right behind its source; these states
\* are always the first ones of Draft, Submitted, Approved, Shipped,
\* Completed, each had once, with Canceled only behind them; so a Completed
\* order went through all of them and was never canceled, and after a
\* successful cancel none of the four succeeds.
C25_ForwardOrder ==
    /\ BeforeCancel = SubSeq(ForwardChain, 1, Len(BeforeCancel))
    /\ state = "Completed" => history = ForwardChain
    /\ \A op \in DOMAIN ForwardSource :
           (call.op = op /\ call.outcome = "ok")
               => /\ Len(history) >= 2
                  /\ history[Len(history) - 1] = ForwardSource[op]
                  /\ history[Len(history)] = ForwardTarget[op]
                  /\ \A i \in 1..Len(history) : history[i] # "Canceled"
    /\ (call.op \in DOMAIN ForwardSource /\ call.from = "Canceled")
           => call.outcome = "ValidationError" /\ state = "Canceled"

\* ship refused on an order canceled after its approval
C25_Witness ==
    /\ history = <<"Draft", "Submitted", "Approved", "Canceled">>
    /\ call.op = "ship" /\ call.outcome = "ValidationError"

\* ------------------------------------------------------- liveness claims

TerminalStates == {"Completed", "Canceled"}

\* C26: while the order is neither Completed nor Canceled a call of cancel
\* would succeed; with no lifecycle method that would succeed left uncalled
\* for ever the order becomes Completed or Canceled; and once it is one of
\* the two its state value stays what it is.
C26_ReachesTerminal ==
    /\ [](state \notin TerminalStates => toCanceledFrom(state).outcome = "ok")
    /\ <>(state \in TerminalStates)
    /\ \A s \in TerminalStates : [](state = s => [](state = s))

\* an order of two items completed after submit, approve and ship
C26_Witness ==
    /\ state = "Completed" /\ call.op = "complete" /\ call.outcome = "ok"
    /\ history = <<"Draft", "Submitted", "Approved", "Shipped", "Completed">>
    /\ Len(items) = 2

\* ------------------------------------------------------- entry point claims

\* the try block has run to its end or to its catch as index.js runs it: a
\* supplier constructed without lastOrderTotalPrice, a dollar order, 5 at 45.99
\* and 10 at 22.99
DemoAsWritten ==
    /\ demo.pc \in {"end", "caught"}
    /\ currency = "USD"
    /\ demo.args = <<AddItemArg(ProductIdOf("uuid-1"), Fin(5000), Fin(45990)),
                     AddItemArg(ProductIdOf("uuid-2"), Fin(10000), Fin(22990))>>
    /\ demo.given = NullMoney

\* C27: the first scenario computes the total of its two items, the
\* supplier's lastOrderTotalPrice then reads back as that total, submit is
\* executed and the order is Submitted, and the error the scenario reports is
\* the ValidationError of the addItem after the submission.
C27_FirstScenario ==
    DemoAsWritten =>
        /\ demo.totalPrice = [cls |-> "Money", amount |-> Fin(459850), currency |-> "USD"]
        /\ demo.readBack = demo.totalPrice
        /\ state = "Submitted"
        /\ demo.error = [name |-> "ValidationError",
                         msg |-> "Items can only be added to a PurchaseOrder in Draft state"]

====
